---- MODULE Spec2Model ----
(***************************************************************************)
(* Model of bin/fit_script_003.py: the sequential line-shape fit driver,   *)
(* its helpers wrap and get_roi, and the aggregation of the result table.  *)
(*                                                                         *)
(* Numbers.  Reals are modelled on integer grids, one grid per quantity:   *)
(*   phase     in units of pi/Pi        (so np.pi is Pi units)             *)
(*   strength  in units of 1e-6         (so 1.0 is 1000000 units)          *)
(*   width     in units of 1e-4         (so gamma_xe1 = 0.122 is 1220)     *)
(*   background, time delay, energy: abstract integer units                *)
(* Arithmetic on the grid is exact.                                        *)
(*                                                                         *)
(* curve_fit is library code: a call either raises or returns a parameter  *)
(* vector and its standard errors, chosen nondeterministically from the    *)
(* candidate sets SeedResults (no bounds) and FitResults (inside bounds).  *)
(* Python indices are 0-based; sequences here are 1-based, so Python       *)
(* index k is position k+1.                                                *)
(***************************************************************************)
EXTENDS Integers, Sequences, FiniteSets, TLC

VARIABLES
  pc,               \* position of the script: load, seed, rows, aggregate, done, aborted
  i,                \* index of the current intensity (1-based position in intensities)
  nrows,            \* number of rows of OD for the current intensity
  time_delay_axis,  \* module-level time_delay_axis (line 152), overwritten per intensity
  s,                \* number of rows of the current intensity already fitted
  heap,             \* the ndarray objects created by curve_fit, by identity
  p_initial,        \* the module-level list p_initial (line 137)
  p_init,           \* identity of the array p_init refers to (0: unbound)
  params,           \* list of array identities (line 162/183)
  errors,           \* list of standard-error vectors (line 163/184)
  optimum,          \* list of params lists (line 139/189)
  fit_errs,         \* list of errors lists (line 140/190)
  file,             \* content of op.csv, or NoFile
  calls,            \* trace of the external calls made so far (getOD, curve_fit)
  wx, wy, wyy, wpc, \* harness of wrap: input, wrap(input), wrap(wrap(input)), position
  energy_axis, erange, roi, rpc   \* harness of get_roi: inputs, output, position

vars == <<pc, i, nrows, time_delay_axis, s, heap, p_initial, p_init, params,
          errors, optimum, fit_errs, file, calls, wx, wy, wyy, wpc,
          energy_axis, erange, roi, rpc>>

driverVars == <<pc, i, nrows, time_delay_axis, s, heap, p_initial, p_init, params,
                errors, optimum, fit_errs, file, calls>>
wrapVars == <<wx, wy, wyy, wpc>>
roiVars == <<energy_axis, erange, roi, rpc>>

----------------------------------------------------------------------------
(* Bounds of the model *)

Pi == 4              \* phase units per pi
NumIntensities == 2  \* intensities processed (the script lists 5)
MaxRows == 2         \* most rows (time delays) in one scan
MaxWrapPhase == 20   \* wrap is applied to every phase in -MaxWrapPhase..MaxWrapPhase
MaxAxisLen == 3      \* longest energy axis given to get_roi
MaxEnergy == 3       \* axis energies lie in 1..MaxEnergy

----------------------------------------------------------------------------
(* Helpers *)

abs(x) == IF x < 0 THEN -x ELSE x

Reverse(q) == [k \in 1..Len(q) |-> q[Len(q) + 1 - k]]

Last(q) == q[Len(q)]

----------------------------------------------------------------------------
(* wrap, line 77-79 *)

wrap_halfturn(phase, offset) == ((phase + offset) % (2 * Pi)) - Pi - offset

wrap(phase, offset) == ((phase + Pi + offset) % (2 * Pi)) - Pi - offset

----------------------------------------------------------------------------
(* get_roi, line 42-52 *)

Unbound == -1

\* first 0-based index whose entry satisfies e > t (the scan of line 43-46)
FirstAbove_geq(axis, t) ==
  IF \E k \in 1..Len(axis) : axis[k] >= t
    THEN (CHOOSE k \in 1..Len(axis) :
            axis[k] >= t /\ \A j \in 1..(k-1) : ~(axis[j] >= t)) - 1
    ELSE Unbound

FirstAbove(axis, t) ==
  IF \E k \in 1..Len(axis) : axis[k] > t
    THEN (CHOOSE k \in 1..Len(axis) :
            axis[k] > t /\ \A j \in 1..(k-1) : ~(axis[j] > t)) - 1
    ELSE Unbound

\* a local never assigned makes `return (first,last)` raise UnboundLocalError
get_roi(axis, er) ==
  LET first == FirstAbove(axis, er[1])
      last  == FirstAbove(axis, er[2])
  IN IF first = Unbound \/ last = Unbound
       THEN [raised |-> TRUE, first |-> Unbound, last |-> Unbound]
       ELSE [raised |-> FALSE, first |-> first, last |-> last]

----------------------------------------------------------------------------
(* Constants of the script *)

gamma_xe1 == 1220                      \* 0.122 in units of 1e-4 (line 60)

e_res == <<5538, 5598, 5727>>          \* resonance energies in units of 0.01 (line 64)

NParams == 3 * Len(e_res) + 1          \* 3*N + 1 fit parameters (line 110)

\* the index sets of the slices [:-1:3], [1:-1:3], [2:-1:3] (line 120-122 and
\* 174-176), as 1-based positions
StrengthIdx == {k \in 1..(NParams - 1) : (k - 1) % 3 = 0}
PhaseIdx    == {k \in 1..(NParams - 1) : (k - 1) % 3 = 1}
WidthIdx    == {k \in 1..(NParams - 1) : (k - 1) % 3 = 2}

\* [a, b, c]*3 + [d]
Tile(a, b, c, d) ==
  [k \in 1..NParams |->
     IF k = NParams THEN d
     ELSE IF k \in StrengthIdx THEN a
     ELSE IF k \in PhaseIdx THEN b ELSE c]

Fin(v) == [inf |-> FALSE, v |-> v]
PosInf == [inf |-> TRUE, v |-> 0]

\* line 133: [1e-6, -2*np.pi, 0.4*gamma_xe1]*3 + [-15]
lower_bounds == Tile(1, -2 * Pi, (4 * gamma_xe1) \div 10, -15)

\* line 134: [np.inf, 2*np.pi, 2.7*gamma_xe1]*3 + [20]
upper_bounds == Tile(PosInf, Fin(2 * Pi), Fin((27 * gamma_xe1) \div 10), Fin(20))

\* the feasibility test the bounded solver applies to its start value
InBounds(x) ==
  \A k \in 1..NParams :
     /\ lower_bounds[k] <= x[k]
     /\ (upper_bounds[k].inf \/ x[k] <= upper_bounds[k].v)

\* line 137: [1, 0, gamma_xe1]*3 + [0]
DefaultGuess == Tile(1000000, 0, gamma_xe1, 0)

----------------------------------------------------------------------------
(* What the external calls can return *)

Errs(e) == [k \in 1..NParams |-> e]

\* results of the unconstrained seed fit: any real vector
SeedResults ==
  { [popt |-> <<-1000000, 3 * Pi, -gamma_xe1,   1000000, -Pi, gamma_xe1,
                2000000, 2 * Pi + 1, 2 * gamma_xe1,   5>>,          perr |-> Errs(3)],
    [popt |-> <<1000000, 0, gamma_xe1,   0, 0, gamma_xe1,
                1000000, 0, 4000,   30>>,                            perr |-> Errs(4)] }

\* results of the bounds-constrained fit: vectors inside the bounds
FitResults ==
  { [popt |-> <<1000000, 2 * Pi, gamma_xe1,   1, -Pi, 488,
                2000000, Pi + 1, 3294,   -15>>,                      perr |-> Errs(1)],
    [popt |-> <<500000, Pi - 1, 488,   1000000, Pi, gamma_xe1,
                1, -2 * Pi, 3294,   20>>,                            perr |-> Errs(2)] }

\* the time-delay axes a data file can carry for a scan of n rows: late to
\* early (8, 6, ...) or early to late (3, 5, ...)
TimeAxes(n) ==
  { [r \in 1..n |-> 8 - 2 * (r - 1)], [r \in 1..n |-> 3 + 2 * (r - 1)] }

----------------------------------------------------------------------------
(* Normalization of the initial guess, line 174-176 *)

WrapPhases(v) == [k \in 1..NParams |-> IF k \in PhaseIdx THEN wrap(v[k], 0) ELSE v[k]]

AbsStrengths_skip(v) == v

AbsStrengths(v) == [k \in 1..NParams |-> IF k \in StrengthIdx THEN abs(v[k]) ELSE v[k]]

AbsWidths(v) == [k \in 1..NParams |-> IF k \in WidthIdx THEN abs(v[k]) ELSE v[k]]

Normalize(v) == AbsWidths(AbsStrengths(WrapPhases(v)))

----------------------------------------------------------------------------
(* The trace of external calls *)

LoadEvent(ii, ok, axis) ==
  [kind |-> "load", i |-> ii, s |-> 0, p0 |-> <<>>, ok |-> ok, out |-> axis]

FitEvent(kind, ii, row, p0, ok, out) ==
  [kind |-> kind, i |-> ii, s |-> row, p0 |-> p0, ok |-> ok, out |-> out]

----------------------------------------------------------------------------
(* Fit loop, line 149-190 *)

\* line 152: OD, time_delay_axis = getOD(intensity)
Load ==
  /\ pc = "load"
  /\ \E n \in 1..MaxRows : \E axis \in TimeAxes(n) :
       /\ nrows' = n
       /\ time_delay_axis' = axis
       /\ calls' = Append(calls, LoadEvent(i, TRUE, axis))
  /\ pc' = "seed"
  /\ UNCHANGED <<i, s, heap, p_initial, p_init, params, errors, optimum, fit_errs, file>>

\* line 152 raising (file absent, header not numeric): nothing catches it
LoadFail ==
  /\ pc = "load"
  /\ calls' = Append(calls, LoadEvent(i, FALSE, <<>>))
  /\ pc' = "aborted"
  /\ UNCHANGED <<i, nrows, time_delay_axis, s, heap, p_initial, p_init, params,
                 errors, optimum, fit_errs, file>>

\* the p0 argument of line 160-161
SeedGuess_carried(pinitial, h, ref) == IF ref = 0 THEN pinitial ELSE h[ref]

SeedGuess(pinitial, h, ref) == pinitial

\* line 160-163: the seed fit returns a fresh array; params and errors restart
SeedFit ==
  /\ pc = "seed"
  /\ \E r \in SeedResults :
       /\ heap' = Append(heap, r.popt)
       /\ p_init' = Len(heap) + 1
       /\ calls' = Append(calls, FitEvent("seed", i, 0, SeedGuess(p_initial, heap, p_init),
                                          TRUE, r.popt))
  /\ params' = <<>>
  /\ errors' = <<>>
  /\ s' = 0
  /\ pc' = "rows"
  /\ UNCHANGED <<i, nrows, time_delay_axis, p_initial, optimum, fit_errs, file>>

SeedFail ==
  /\ pc = "seed"
  /\ calls' = Append(calls, FitEvent("seed", i, 0, SeedGuess(p_initial, heap, p_init),
                                     FALSE, <<>>))
  /\ pc' = "aborted"
  /\ UNCHANGED <<i, nrows, time_delay_axis, s, heap, p_initial, p_init, params,
                 errors, optimum, fit_errs, file>>

\* line 174-176 assign into the array p_init refers to
NormalizeInPlace(h, ref) == [h EXCEPT ![ref] = Normalize(h[ref])]

\* line 187: p_init = popt binds the name to the returned array itself
NextGuess_stale(popt, old) == old

NextGuess(popt, old) == popt

\* line 171-187, one pass of the inner loop whose fit returns
FitRow ==
  /\ pc = "rows"
  /\ s < nrows
  /\ LET h1 == NormalizeInPlace(heap, p_init)
         popt == Len(h1) + 1
     IN /\ InBounds(h1[p_init])
        /\ \E r \in FitResults :
             /\ heap' = Append(h1, r.popt)
             /\ params' = Append(params, popt)
             /\ errors' = Append(errors, r.perr)
             /\ calls' = Append(calls, FitEvent("row", i, s, h1[p_init], TRUE, r.popt))
        /\ p_init' = NextGuess(popt, p_init)
  /\ s' = s + 1
  /\ UNCHANGED <<pc, i, nrows, time_delay_axis, p_initial, optimum, fit_errs, file>>

\* the failure swallowed and the loop going on with the next row
FitRowFail_skipped ==
  /\ pc = "rows"
  /\ s < nrows
  /\ LET h1 == NormalizeInPlace(heap, p_init)
     IN /\ heap' = h1
        /\ calls' = Append(calls, FitEvent("row", i, s, h1[p_init], FALSE, <<>>))
  /\ s' = s + 1
  /\ UNCHANGED <<pc, i, nrows, time_delay_axis, p_initial, p_init, params, errors,
                 optimum, fit_errs, file>>

\* line 171-181, a pass whose fit raises (start value outside the bounds, or
\* no convergence); the normalization has already been applied
FitRowFail ==
  /\ pc = "rows"
  /\ s < nrows
  /\ LET h1 == NormalizeInPlace(heap, p_init)
     IN /\ heap' = h1
        /\ calls' = Append(calls, FitEvent("row", i, s, h1[p_init], FALSE, <<>>))
  /\ pc' = "aborted"
  /\ UNCHANGED <<i, nrows, time_delay_axis, s, p_initial, p_init, params, errors,
                 optimum, fit_errs, file>>

\* line 189-190, then the next intensity or the end of the outer loop
EndIntensity ==
  /\ pc = "rows"
  /\ s = nrows
  /\ optimum' = Append(optimum, params)
  /\ fit_errs' = Append(fit_errs, errors)
  /\ IF i < NumIntensities
       THEN i' = i + 1 /\ pc' = "load"
       ELSE i' = i /\ pc' = "aggregate"
  /\ UNCHANGED <<nrows, time_delay_axis, s, heap, p_initial, p_init, params, errors,
                 file, calls>>

----------------------------------------------------------------------------
(* Result aggregation, line 195-208 *)

Kinds == {"z0", "phi", "gam"}

Columns == Kinds \X (1..Len(e_res)) \X (1..NumIntensities)

NoFile == [written |-> FALSE, time |-> <<>>, cols |-> [c \in Columns |-> <<>>]]

\* line 195: np.array(optimum) copies the values of the recorded arrays
OptParams(h, opt) == [ii \in 1..Len(opt) |-> [r \in 1..Len(opt[ii]) |-> h[opt[ii][r]]]]

\* np.array of lists of unequal length has no second axis to index
Ragged(opt) == \E a, b \in 1..Len(opt) : Len(opt[a]) # Len(opt[b])

\* 0-based parameter index of line 204-206, num = 0..2
ParamIndex_shifted(kind, num) ==
  3 * num + (CASE kind = "z0" -> 1 [] kind = "phi" -> 2 [] kind = "gam" -> 3)

ParamIndex(kind, num) ==
  3 * num + (CASE kind = "z0" -> 0 [] kind = "phi" -> 1 [] kind = "gam" -> 2)

\* opt_params[ii, ::-1, index]
Column_stored(op, ii, index) ==
  [r \in 1..Len(op[ii]) |-> op[ii][r][index + 1]]

Column(op, ii, index) ==
  Reverse([r \in 1..Len(op[ii]) |-> op[ii][r][index + 1]])

\* line 197: time_delay_axis[::-1], the axis left by the last getOD
TimeColumn(axis) == Reverse(axis)

\* the table written by line 208; column T<num+1>_<kind><intens> is c = <<kind, num+1, ii>>
Table(op, axis) ==
  [written |-> TRUE,
   time |-> TimeColumn(axis),
   cols |-> [c \in Columns |-> Column(op, c[3], ParamIndex(c[1], c[2] - 1))]]

Aggregate ==
  /\ pc = "aggregate"
  /\ ~Ragged(optimum)
  /\ file' = Table(OptParams(heap, optimum), time_delay_axis)
  /\ pc' = "done"
  /\ UNCHANGED <<i, nrows, time_delay_axis, s, heap, p_initial, p_init, params,
                 errors, optimum, fit_errs, calls>>

\* line 204 raising on the ragged optimum: op.csv is not written
AggregateFail ==
  /\ pc = "aggregate"
  /\ Ragged(optimum)
  /\ pc' = "aborted"
  /\ UNCHANGED <<i, nrows, time_delay_axis, s, heap, p_initial, p_init, params,
                 errors, optimum, fit_errs, file, calls>>

----------------------------------------------------------------------------
(* The script *)

DriverInit ==
  /\ pc = "load"
  /\ i = 1
  /\ nrows = 0
  /\ time_delay_axis = <<>>
  /\ s = 0
  /\ heap = <<>>
  /\ p_initial = DefaultGuess
  /\ p_init = 0
  /\ params = <<>>
  /\ errors = <<>>
  /\ optimum = <<>>
  /\ fit_errs = <<>>
  /\ file = NoFile
  /\ calls = <<>>

WrapIdle == wx = 0 /\ wy = 0 /\ wyy = 0 /\ wpc = "idle"

NoRoi == [raised |-> FALSE, first |-> Unbound, last |-> Unbound]

RoiIdle == energy_axis = <<>> /\ erange = <<0, 0>> /\ roi = NoRoi /\ rpc = "idle"

Init == DriverInit /\ WrapIdle /\ RoiIdle

Next ==
  \/ Load /\ UNCHANGED <<wrapVars, roiVars>>
  \/ LoadFail /\ UNCHANGED <<wrapVars, roiVars>>
  \/ SeedFit /\ UNCHANGED <<wrapVars, roiVars>>
  \/ SeedFail /\ UNCHANGED <<wrapVars, roiVars>>
  \/ FitRow /\ UNCHANGED <<wrapVars, roiVars>>
  \/ FitRowFail /\ UNCHANGED <<wrapVars, roiVars>>
  \/ EndIntensity /\ UNCHANGED <<wrapVars, roiVars>>
  \/ Aggregate /\ UNCHANGED <<wrapVars, roiVars>>
  \/ AggregateFail /\ UNCHANGED <<wrapVars, roiVars>>

Spec == Init /\ [][Next]_vars

----------------------------------------------------------------------------
(* wrap applied to every phase of a bounded range, twice in a row *)

WrapInit ==
  /\ DriverInit /\ RoiIdle
  /\ wx \in (-MaxWrapPhase)..MaxWrapPhase
  /\ wy = 0
  /\ wyy = 0
  /\ wpc = "in"

WrapOnce ==
  /\ wpc = "in"
  /\ wy' = wrap(wx, 0)
  /\ wpc' = "once"
  /\ UNCHANGED <<wx, wyy, driverVars, roiVars>>

WrapTwice ==
  /\ wpc = "once"
  /\ wyy' = wrap(wy, 0)
  /\ wpc' = "twice"
  /\ UNCHANGED <<wx, wy, driverVars, roiVars>>

WrapNext == WrapOnce \/ WrapTwice

SpecWrap == WrapInit /\ [][WrapNext]_vars

----------------------------------------------------------------------------
(* get_roi applied to every ascending axis and threshold pair of a bounded range *)

Ascending(axis) == \A k \in 1..(Len(axis) - 1) : axis[k] <= axis[k + 1]

Axes == UNION { {a \in [1..n -> 1..MaxEnergy] : Ascending(a)} : n \in 0..MaxAxisLen }

RoiInit ==
  /\ DriverInit /\ WrapIdle
  /\ energy_axis \in Axes
  /\ erange \in (0..(MaxEnergy + 1)) \X (0..(MaxEnergy + 1))
  /\ roi = NoRoi
  /\ rpc = "in"

RoiCall ==
  /\ rpc = "in"
  /\ roi' = get_roi(energy_axis, erange)
  /\ rpc' = "done"
  /\ UNCHANGED <<energy_axis, erange, driverVars, wrapVars>>

RoiNext == RoiCall

SpecRoi == RoiInit /\ [][RoiNext]_vars

----------------------------------------------------------------------------
(* Reading the trace *)

IsRow(k) == calls[k].kind = "row"

\* the time-delay axis getOD returned for intensity ii
AxisOf(ii) == calls[CHOOSE k \in 1..Len(calls) :
                      calls[k].kind = "load" /\ calls[k].i = ii /\ calls[k].ok].out

\* the vector the bounds-constrained fit of stored row `row` (0-based) returned
RowOut(ii, row) == calls[CHOOSE k \in 1..Len(calls) :
                           IsRow(k) /\ calls[k].i = ii /\ calls[k].s = row /\ calls[k].ok].out

RowCallsOf(ii, row) == {k \in 1..Len(calls) : IsRow(k) /\ calls[k].i = ii /\ calls[k].s = row}

Descending(q) == \A k \in 1..(Len(q) - 1) : q[k] > q[k + 1]

StrictlyAscending(q) == \A k \in 1..(Len(q) - 1) : q[k] < q[k + 1]

----------------------------------------------------------------------------
(* C1 *)

\* C1: within one intensity the bounds-constrained fits run once per row, in
\* stored row order; the guess of row s is the normalized output of the fit of
\* row s-1 of the same intensity, the guess of row 0 the normalized output of
\* that intensity's seed fit, and nothing else.
C1_ChainedGuess ==
  /\ \A k \in 1..Len(calls) :
       IsRow(k) =>
         /\ k > 1
         /\ calls[k - 1].ok
         /\ calls[k - 1].i = calls[k].i
         /\ IF calls[k].s = 0
              THEN calls[k - 1].kind = "seed"
              ELSE IsRow(k - 1) /\ calls[k - 1].s = calls[k].s - 1
         /\ calls[k].p0 = Normalize(calls[k - 1].out)
         /\ Cardinality(RowCallsOf(calls[k].i, calls[k].s)) = 1
         /\ calls[k].s < Len(AxisOf(calls[k].i))
  /\ \A ii \in 1..Len(optimum) :
       \A row \in 0..(Len(AxisOf(ii)) - 1) :
          \E k \in RowCallsOf(ii, row) : calls[k].ok

\* the second row of the second intensity has been fitted, from a guess that is
\* neither the default guess nor the raw output of the row before
C1_Witness ==
  \E k \in 2..Len(calls) :
     /\ IsRow(k) /\ calls[k].ok /\ calls[k].i = 2 /\ calls[k].s = 1
     /\ calls[k].p0 # DefaultGuess
     /\ calls[k].p0 # calls[k - 1].out

----------------------------------------------------------------------------
(* C2 *)

\* C2: every seed fit starts from the fixed default guess [1, 0, 0.122]*3 + [0],
\* which no step modifies; the first row of an intensity starts from that
\* intensity's own seed, never from what the previous intensity left behind.
C2_SeedFromDefault ==
  LET default == <<1000000, 0, 1220, 1000000, 0, 1220, 1000000, 0, 1220, 0>>
  IN /\ p_initial = default
     /\ \A k \in 1..Len(calls) :
          /\ calls[k].kind = "seed" => calls[k].p0 = default
          /\ (IsRow(k) /\ calls[k].s = 0) =>
                /\ calls[k - 1].kind = "seed"
                /\ calls[k - 1].i = calls[k].i
                /\ calls[k - 1].p0 = default
                /\ calls[k].p0 = Normalize(calls[k - 1].out)

\* the seed fit of the second intensity was called after the first intensity
\* left a chained guess different from the default
C2_Witness ==
  /\ Len(optimum) >= 1
  /\ Len(optimum[1]) >= 1
  /\ p_init # 0
  /\ \E k \in 1..Len(calls) : calls[k].kind = "seed" /\ calls[k].i = 2
  /\ heap[Last(optimum[1])] # DefaultGuess

----------------------------------------------------------------------------
(* C3 *)

----------------------------------------------------------------------------
(* C4, checked under SpecWrap *)

----------------------------------------------------------------------------
(* C5, checked under SpecRoi *)

\* C5 as amended: get_roi returns only when some axis entry exceeds lower and
\* some entry exceeds upper (otherwise it raises); then 0 <= first < length
\* and 0 <= last < length, first is the smallest index whose energy strictly
\* exceeds lower (energy_axis[first-1] <= lower < energy_axis[first] when
\* first > 0), last the smallest index whose energy strictly exceeds upper,
\* and first < last exactly when some axis entry lies in (lower, upper].
C5_RoiIndices ==
  rpc = "done" =>
    LET n == Len(energy_axis)
        lower == erange[1]
        upper == erange[2]
    IN /\ roi.raised <=> \/ ~ \E k \in 1..n : energy_axis[k] > lower
                         \/ ~ \E k \in 1..n : energy_axis[k] > upper
       /\ ~roi.raised =>
            /\ 0 <= roi.first /\ roi.first < n
            /\ 0 <= roi.last /\ roi.last < n
            /\ energy_axis[roi.first + 1] > lower
            /\ \A k \in 1..roi.first : energy_axis[k] <= lower
            /\ energy_axis[roi.last + 1] > upper
            /\ \A k \in 1..roi.last : energy_axis[k] <= upper
            /\ roi.first < roi.last <=>
                 \E k \in 1..n : lower < energy_axis[k] /\ energy_axis[k] <= upper

\* C5 as stated: for every ascending axis and threshold pair get_roi returns
\* (first, last) with 0 <= first < last <= length, first the smallest index
\* whose energy exceeds lower and last the smallest whose energy exceeds upper.
C5_AllInputs ==
  rpc = "done" =>
    LET n == Len(energy_axis)
        lower == erange[1]
        upper == erange[2]
    IN /\ ~roi.raised
       /\ 0 <= roi.first /\ roi.first < roi.last /\ roi.last <= n
       /\ energy_axis[roi.first + 1] > lower
       /\ \A k \in 1..roi.first : energy_axis[k] <= lower
       /\ energy_axis[roi.last + 1] > upper
       /\ \A k \in 1..roi.last : energy_axis[k] <= upper

\* get_roi returned a region that starts after the first entry and is not empty
C5_Witness ==
  /\ rpc = "done"
  /\ ~roi.raised
  /\ roi.first >= 1
  /\ roi.first < roi.last
  /\ energy_axis[roi.first] = erange[1]

----------------------------------------------------------------------------
(* C6 *)

\* C6: a failed getOD, seed fit or bounded fit is the last call the script
\* makes, and op.csv is then not written; op.csv is written only when every
\* intensity has had all its rows fitted.
C6_FailureAborts ==
  /\ \A k \in 1..Len(calls) :
       ~calls[k].ok => k = Len(calls) /\ ~file.written /\ pc = "aborted"
  /\ file.written =>
       /\ Len(optimum) = NumIntensities
       /\ \A ii \in 1..NumIntensities :
            /\ Len(optimum[ii]) = Len(AxisOf(ii))
            /\ \A row \in 0..(Len(AxisOf(ii)) - 1) :
                 \E k \in RowCallsOf(ii, row) : calls[k].ok

\* the fit of a later row failed after an intensity and a row had been fitted
C6_Witness ==
  /\ pc = "aborted"
  /\ Len(optimum) >= 1
  /\ Len(params) >= 1
  /\ calls # <<>>
  /\ Last(calls).kind = "row"
  /\ ~Last(calls).ok
  /\ ~file.written

----------------------------------------------------------------------------
(* C7 *)

----------------------------------------------------------------------------
(* C8 *)

\* C8: the strength, phase and width values in op.csv are exactly the values
\* the bounds-constrained fit of that row returned.
C8_RecordedUnmodified ==
  file.written =>
    LET n == Len(file.time)
    IN \A ii \in 1..NumIntensities : \A r \in 1..3 : \A k \in 1..n :
         LET out == RowOut(ii, n - k)
         IN /\ file.cols[<<"z0", r, ii>>][k] = out[3 * (r - 1) + 1]
            /\ file.cols[<<"phi", r, ii>>][k] = out[3 * (r - 1) + 2]
            /\ file.cols[<<"gam", r, ii>>][k] = out[3 * (r - 1) + 3]

----------------------------------------------------------------------------
(* C9 *)

\* C9: the guess given to every bounds-constrained fit lies within the
\* bounds: strength >= 1e-6, phase in [-2*pi, 2*pi], width in
\* [0.4*0.122, 2.7*0.122], background in [-15, 20].
C9_GuessFeasible ==
  \A k \in 1..Len(calls) :
     IsRow(k) =>
       /\ \A j \in {1, 4, 7} : calls[k].p0[j] >= 1
       /\ \A j \in {2, 5, 8} : -2 * Pi <= calls[k].p0[j] /\ calls[k].p0[j] <= 2 * Pi
       /\ \A j \in {3, 6, 9} : 488 <= calls[k].p0[j] /\ calls[k].p0[j] <= 3294
       /\ -15 <= calls[k].p0[10] /\ calls[k].p0[10] <= 20

----------------------------------------------------------------------------
(* C10 *)

\* C10: once every intensity has been fitted op.csv is written, whatever the
\* axes and row counts of the inputs, and in every output row the time entry
\* is, for every intensity, the time delay of that intensity's own row whose
\* fitted values the output row holds.
C10_TimeOfOwnAxis ==
  /\ (Len(optimum) = NumIntensities /\ pc # "aggregate") => file.written
  /\ file.written =>
       \A ii \in 1..NumIntensities :
          /\ Len(AxisOf(ii)) = Len(file.time)
          /\ \A k \in 1..Len(file.time) :
               file.time[k] = AxisOf(ii)[Len(file.time) + 1 - k]

====
